---------------------------- MODULE Spec2Model ----------------------------
(***************************************************************************)
(* Model of the directive dispatch and tool-transport layer of the agent   *)
(* repository: MCPClient (src/src/mcp_client/mod.rs), Agent::run_once      *)
(* (src/src/agent/mod.rs), LocalOllamaClient::complete                     *)
(* (src/src/model_client/mod.rs) and the driver loop of src/src/main.rs.   *)
(*                                                                         *)
(* Byte streams are sequences of tokens.  A token is either the newline    *)
(* byte NL or a chunk of text without a newline:                           *)
(*   - on the subprocess's stdin: a serialized request (one JSON text);    *)
(*   - on the subprocess's stdout: "ok" (a JSON object without an "error"  *)
(*     member), "e1"/"e2" (a JSON object whose "error" member is 1/2),     *)
(*     "ok1"/"ok2" (a JSON object without "error", with "id" 1/2),         *)
(*     "bad" (bytes that are not valid UTF-8, of any content, ending with  *)
(*     bytes that are not), "broken" (bytes that are not valid UTF-8       *)
(*     whatever follows them),                                             *)
(*     "run" (valid UTF-8 that is not one JSON value and holds whole JSON  *)
(*     texts: two or more texts in a row),                                 *)
(*     "frag" / "badtail" (the last bytes of one JSON text whose first     *)
(*     bytes a read took: valid UTF-8 that is not a JSON value / bytes     *)
(*     that begin inside a multi-byte character).                          *)
(* Text written right after a chunk, with no newline between, belongs to   *)
(* the same line: the two are one chunk, the concatenation of their bytes. *)
(***************************************************************************)
EXTENDS Integers, Sequences, FiniteSets, TLC

\* ------------------------------------------------------------------ bounds
MaxSpawn == 2   \* subprocesses one client may spawn (init may be run again)
PipeCap  == 2   \* tokens the stdin pipe holds before write_all blocks
OutCap   == 2   \* tokens the subprocess may have sitting in its stdout pipe

\* --------------------------------------------------------------- alphabets
NL == "\n"
Paths == {"a.txt"}
\* Two contents: one line of text, and two lines with a newline byte between.
TwoLines == "l1\nl2"
Contents == {"c1", TwoLines}
\* An argument of a directive or request that is absent or is not a JSON
\* string (null, a number): Value::as_str gives None for it.
NotAString == "not-a-string"
NoFile == "absent"
Dir == "dir"
Root == "."

\* The paths a directive may name below the server's directory, and the
\* nodes of the filesystem: those files and the directory "out".
FilePaths == Paths \cup {"out/a.txt"}
FsNodes == FilePaths \cup {"out"}

\* Path::parent of a path joined to the server's directory.
Parent(path) == IF path = "out/a.txt" THEN "out" ELSE Root

\* The filesystem with nothing in the server's directory.
EmptyFs == [n \in FsNodes |-> NoFile]
OutChunks == {"ok", "e1", "e2"}
\* Bytes that are not valid UTF-8.
Bad == "bad"
OutTokens == OutChunks \cup {NL, Bad}

\* The ids a caller gives its requests, and the response a well-behaved
\* server gives to the request with that id: a JSON object without an
\* "error" member that carries the request's id.
CallIds == {"1", "2"}
ResponseTo(id) == IF id = "1" THEN "ok1" ELSE "ok2"
ResponseId(chunk) == IF chunk = "ok1" THEN "1" ELSE IF chunk = "ok2" THEN "2" ELSE "none"
EchoChunks == {ResponseTo(id) : id \in CallIds}
Pids == 1..MaxSpawn
None == 0

\* model::JsonRpcRequest / the json! envelope of write_file: method tools/call,
\* params.name, params.arguments {path, content}, id.
Envelope(name, path, content, id) ==
    [method |-> "tools/call", name |-> name, path |-> path, content |-> content, id |-> id]

\* The requests a caller hands to do_request: the envelopes of tools/call.
Requests ==
    {Envelope("write_file", p, c, "1") : p \in Paths, c \in Contents}
        \cup {Envelope("read_file", p, "none", "1") : p \in Paths}

\* The strings of the model that hold a newline byte.
HoldsNewline(str) == str \in {NL, TwoLines}

\* serde_json writes a string with its control characters escaped: the
\* newline byte becomes the two characters backslash and n.
JsonString(str) == IF str = TwoLines THEN "l1\\nl2" ELSE str

\* What a JSON parser reads back from the text of a string.
JsonStringValue(txt) == IF txt = "l1\\nl2" THEN TwoLines ELSE txt

\* The stdin chunk is a tools/call of write_file with a string path and a
\* string content: the request that the tool server executes.
IsWriteFile(chunk) ==
    chunk[2] = "write_file" /\ chunk[3] # NotAString /\ chunk[4] # NotAString

\* Mutant: strings are written as they are.
Serialize_Raw(req) == <<req.method, req.name, req.path, req.content, req.id>>

\* json!(request).to_string() (line 58, 62): one chunk of compact JSON text
\* holding the request's members.
Serialize(req) ==
    <<req.method, req.name, JsonString(req.path), JsonString(req.content), req.id>>

\* The json! envelope of write_file, lines 107-118, and its to_string().
WfSerialize(path, content) ==
    <<"tools/call", "write_file", JsonString(path), JsonString(content), "1">>

\* The newline byte on the stdin stream (stdin tokens are tuples).
InNL == <<NL>>

\* Entry of a call's I/O log: stdin.flush() returned Ok.
Flushed == <<"flush">>

\* Positions of a call in its method: before write_all(request), before
\* write_all(b"\n"), and in read_line.
DoLabels == [write_req |-> "write_req", write_nl |-> "write_nl", read |-> "read"]
WfLabels == [write_req |-> "wf_write_req", write_nl |-> "wf_write_nl", read |-> "wf_read"]

VARIABLES
    client,          \* "live" | "dropped": the owning MCPClient handle
    server_process,  \* MCPClient.server_process: None or the pid of the held Child
    spawned,         \* number of subprocesses spawned so far (the next pid is spawned+1)
    running,         \* pids of the processes the client spawned that are running
    stdin,           \* bytes written to the held child's stdin and not yet read by it
    stdout,          \* bytes the held child has emitted and the client has not read
    stdoutOpen,      \* some process holds the write end of the held Child's stdout pipe
    stdinOpen,       \* some process holds the read end of the held Child's stdin pipe
    orphanIn,        \* pid -> write_file requests left unread in the pipe of a Child no longer held
    ready,           \* init() has completed its warm-up wait for the held child
    pc,              \* position of the client operation in progress
    request,         \* the serialized request of the call in progress
    result,          \* what the last client operation returned; "none" while a call is in progress
    deadAtStart,     \* the latest call was issued after the held child had exited (ChildExited)
    iolog,           \* what the call in progress has written to the child's stdin, in order
    pending,         \* requests written whose call has neither returned nor timed out
    files,           \* the filesystem: node -> content of the file, Dir or NoFile
    mcp_server,      \* Agent.mcp_server: "local" (TestMCPServer), "remote" (MCPClient), "none"
    agentPc,         \* position of main / Agent::run_once
    todo,            \* the directives of the current reply not yet dispatched
    reply,           \* the raw text of the model's last reply
    dispatched,      \* the directives handed to the server in this iteration, with outcomes
    agentResult      \* what the last run_once returned

tvars == <<client, server_process, spawned, running, stdin, stdout, stdoutOpen,
           stdinOpen, orphanIn,
           ready, pc, request, result, deadAtStart, iolog, pending>>
avars == <<mcp_server, agentPc, todo, reply, dispatched, agentResult>>
vars == <<tvars, files, avars>>

NoRequest == <<>>


Res(kind) == [kind |-> kind, payload |-> "none"]
ToolError(p) == [kind |-> "ToolError", payload |-> p]

\* ----------------------------------------------------------- pure helpers
RECURSIVE FindFirst(_, _, _)
\* str::find / the scan of read_line: least index >= i of s holding c, 0 if none.
FindFirst(s, c, i) ==
    IF i > Len(s) THEN 0
    ELSE IF s[i] = c THEN i
    ELSE FindFirst(s, c, i + 1)

\* read_line has something to return: a newline is buffered, or the stream is
\* at end of file (the write end is closed).
LineAvailable == FindFirst(stdout, NL, 1) # 0 \/ ~stdoutOpen

\* What read_line puts into `line`: the bytes up to and including the first
\* newline, or everything up to end of file.
FirstLine(out) ==
    IF FindFirst(out, NL, 1) # 0 THEN SubSeq(out, 1, FindFirst(out, NL, 1)) ELSE out

\* What is left of one JSON text when a read took only its first bytes: the
\* tail of the text.  It is not a JSON value, and no part of it is one.
Frag == "frag"

\* The tail of one JSON text that begins inside a multi-byte character: it is
\* not valid UTF-8, whatever follows it.
BadTail == "badtail"

\* Valid UTF-8 that is not one JSON value and holds whole JSON texts: texts
\* in a row, with or without the tail of a text before them ("trailing
\* characters" to serde_json).
TextRun == "run"

\* Bytes with a sequence that is not UTF-8 and that no later byte completes:
\* invalid bytes followed by a text, or bytes after a BadTail.
Broken == "broken"

\* The chunks that are valid UTF-8.
ValidChunks == OutChunks \cup EchoChunks \cup {Frag, TextRun}

\* The chunks that the bytes of chunk `a` followed by the bytes of chunk `b`
\* can make (b is what one write brings: a text, or Bad).  Valid UTF-8
\* followed by valid UTF-8 is valid and is more than one JSON value.  Valid
\* followed by invalid, or invalid by valid, is invalid.  Two invalid writes
\* in a row can be the two halves of a character (0xC3, then 0xA9) and make
\* any text, or stay invalid.
Joined(a, b) ==
    IF a \in ValidChunks
    THEN IF b \in ValidChunks THEN {TextRun} ELSE {Bad}
    ELSE IF a = Bad
         THEN IF b = Bad THEN OutChunks \cup {TextRun, Bad} ELSE {Broken}
         ELSE {Broken}

\* The streams that `out` can be after the token `tok` was written to it.
Written(out, tok) ==
    IF out # <<>> /\ out[Len(out)] # NL /\ tok # NL
    THEN {[out EXCEPT ![Len(out)] = j] : j \in Joined(out[Len(out)], tok)}
    ELSE {Append(out, tok)}

\* read_line returns Ok: the bytes it collected are valid UTF-8.
IsUtf8(line) == \A i \in 1..Len(line) : line[i] \notin {Bad, BadTail, Broken}

\* The bytes that follow the first line of `out`.
AfterLine(out) == SubSeq(out, Len(FirstLine(out)) + 1, Len(out))

\* BufReader::new(stdout) has a buffer of 8192 bytes and fills it with one
\* read of the pipe at a time.  The read that brings the newline also brings
\* the bytes that follow it, as far as they fit the buffer; they are dropped
\* with the reader.  The bytes beyond stay in the pipe: `rest` from some
\* token on, or from the inside of some chunk on (chunks stand for texts of
\* any length, the newline is one byte).
\* What a cut inside `chunk` can leave of it.  Of one JSON text, or of the
\* tail of one: a tail, which begins inside a multi-byte character or not.
\* Of texts in a row also the later texts: one whole text, several, or
\* those after a tail.  Of invalid bytes, which are of any content, all that.
TailsOf(chunk) ==
    IF chunk = TextRun THEN OutChunks \cup {Frag, BadTail, TextRun, Broken}
    ELSE IF chunk \in {Bad, Broken} THEN OutChunks \cup {Frag, BadTail, TextRun, Broken, Bad}
    ELSE {Frag, BadTail}

LeftInPipe(rest) ==
    {SubSeq(rest, k + 1, Len(rest)) : k \in 0..Len(rest)}
        \cup UNION {{<<tail>> \o SubSeq(rest, k + 1, Len(rest)) : tail \in TailsOf(rest[k])} :
                       k \in {j \in 1..Len(rest) : rest[j] # NL}}

\* The JSON text of a line: serde_json skips trailing whitespace.
Body(line) ==
    IF line # <<>> /\ line[Len(line)] = NL THEN SubSeq(line, 1, Len(line) - 1) ELSE line

\* serde_json::from_str::<Value>(&line) succeeds: exactly one JSON value.
Decodes(line) == Len(Body(line)) = 1 /\ Body(line)[1] \in OutChunks \cup EchoChunks

\* response.get("error") of the decoded value: the payload, or "none".
ErrorField(line) ==
    CASE Body(line)[1] = "e1" -> "1"
      [] Body(line)[1] = "e2" -> "2"
      [] OTHER -> "none"

\* Lines 77-86 of do_request (139-148 of write_file): the outcome of a read
\* that completed with `line`.
Evaluate(line) ==
    IF line = <<>> THEN Res("EmptyResponse")
    ELSE IF ~Decodes(line) THEN Res("MalformedToolResponse")
    ELSE IF ErrorField(line) # "none" THEN ToolError(ErrorField(line))
    ELSE Res("Ok")

\* Lines 74-87 of do_request: `result?` returns the error of read_line (the
\* bytes are not valid UTF-8) before the line is looked at.
ReadOutcome(line) == IF ~IsUtf8(line) THEN Res("IOError") ELSE Evaluate(line)

\* Mutant: the readiness check is missing.
IsInitialized_Always(sp) == TRUE

\* Lines 48-51: server_process.as_mut().ok_or_else(..)?
IsInitialized(sp) == sp # None

\* An operation on the client starts only when none is in progress: every
\* method takes &mut self and is awaited to completion by its caller.
NoOperationInProgress == pc = "idle"

\* impl Drop: `let _ = child.kill();` builds the future of the async fn
\* Child::kill and drops it unpolled, and the Child is dropped without
\* kill_on_drop: the set of running subprocesses is what it was.
RunningAfterDrop(sp, run) == run

\* The held subprocess has exited.
ChildExited == server_process \notin running

\* write_all on a pipe whose read end is closed fails (EPIPE): no process
\* holds it any more.
PipeBroken == ~stdinOpen

RECURSIVE UnreadRequests(_)
\* The write_file requests that the bytes `in` of a stdin pipe hold as whole
\* lines, in order: a line is one chunk followed by the newline.
UnreadRequests(in) ==
    IF Len(in) < 2 THEN <<>>
    ELSE IF in[1] # InNL /\ in[2] = InNL
         THEN (IF IsWriteFile(in[1]) THEN <<in[1]>> ELSE <<>>)
                  \o UnreadRequests(SubSeq(in, 3, Len(in)))
         ELSE UnreadRequests(Tail(in))

\* A Child is dropped without being killed: the client's ends of its pipes
\* close, the subprocess keeps its own ends and the bytes not yet read.  What
\* those bytes can still do is the write_file requests among them.
Released(sp, unread, orphans) ==
    IF sp = None THEN orphans ELSE [orphans EXCEPT ![sp] = UnreadRequests(unread)]

\* Lines 62-63 (124-125): `write_all(..).await?` returns the error of the write.
WriteAllFails == PipeBroken

\* ------------------------------------------------------------------- Init
\* MCPClient::new(): server_process is None; nothing is spawned.
ClientNoFs ==
    /\ client = "live"
    /\ server_process = None
    /\ spawned = 0
    /\ running = {}
    /\ stdin = <<>>
    /\ stdout = <<>>
    /\ stdoutOpen = FALSE
    /\ stdinOpen = FALSE
    /\ orphanIn = [pid \in Pids |-> <<>>]
    /\ ready = FALSE
    /\ pc = "idle"
    /\ request = NoRequest
    /\ result = Res("none")
    /\ deadAtStart = FALSE
    /\ iolog = <<>>
    /\ pending = 0

ClientNew ==
    /\ ClientNoFs
    /\ files = EmptyFs

\* The client on its own, driven by a caller such as the repository's tests.
Init ==
    /\ ClientNew
    /\ mcp_server = "none"
    /\ agentPc = "off"
    /\ todo = <<>>
    /\ reply = <<>>
    /\ dispatched = <<>>
    /\ agentResult = Res("none")

\* ------------------------------------------------------- MCPClient::init
\* Line 35: spawn() fails; `?` returns the error before server_process is set.
SpawnFails ==
    /\ client = "live"
    /\ NoOperationInProgress
    /\ result' = Res("SpawnError")
    /\ UNCHANGED <<client, server_process, spawned, running, stdin, stdout, stdoutOpen, stdinOpen, orphanIn,
                   ready, pc, request, deadAtStart, iolog, pending, files>>

\* Lines 28-41: spawn with piped streams, store the child (the Child held
\* before, if any, is dropped: its pipes close, it is not killed), then sleep.
SpawnAndStore ==
    /\ client = "live"
    /\ NoOperationInProgress
    /\ spawned < MaxSpawn
    /\ spawned' = spawned + 1
    /\ running' = running \cup {spawned + 1}
    /\ server_process' = spawned + 1
    /\ orphanIn' = Released(server_process, stdin, orphanIn)
    /\ stdin' = <<>>
    /\ stdinOpen' = TRUE
    /\ stdout' = <<>>
    /\ stdoutOpen' = TRUE
    /\ ready' = FALSE
    /\ pc' = "init_sleep"
    /\ UNCHANGED <<client, request, result, deadAtStart, iolog, pending, files>>

\* Lines 41-44: the warm-up sleep is over; init returns Ok.
WarmupOver ==
    /\ pc = "init_sleep"
    /\ pc' = "idle"
    /\ ready' = TRUE
    /\ result' = Res("Ok")
    /\ UNCHANGED <<client, server_process, spawned, running, stdin, stdout, stdoutOpen, stdinOpen, orphanIn,
                   request, deadAtStart, iolog, pending, files>>

InitSpawnFails == SpawnFails /\ agentPc = "off" /\ UNCHANGED avars
InitSpawn == SpawnAndStore /\ agentPc = "off" /\ UNCHANGED avars
InitDone == WarmupOver /\ agentPc = "off" /\ UNCHANGED avars

\* ------------------------------------------------ MCPClient::do_request
\* Lines 47-60: the readiness check and the serialization; the call is then
\* at position L.write_req of its method.
CallAt(req, L) ==
    /\ client = "live"
    /\ IF IsInitialized(server_process)
       THEN /\ pc' = L.write_req
            /\ request' = Serialize(req)
            /\ deadAtStart' = ChildExited
            /\ result' = Res("none")
       ELSE /\ result' = Res("NotReady")
            /\ deadAtStart' = FALSE
            /\ UNCHANGED <<pc, request>>
    /\ iolog' = <<>>
    /\ UNCHANGED <<client, server_process, spawned, running, stdin, stdout, stdoutOpen, stdinOpen, orphanIn,
                   ready, pending, files>>

Call(req) == CallAt(req, DoLabels)

DoRequest ==
    /\ agentPc = "off"
    /\ NoOperationInProgress
    /\ UNCHANGED avars
    /\ \E req \in Requests : Call(req)

\* Line 62: stdin.write_all(request).await?  Blocks while the pipe is full.
WriteRequestAt(L) ==
    /\ pc = L.write_req
    /\ IF WriteAllFails
       THEN /\ result' = Res("IOError")
            /\ pc' = "idle"
            /\ request' = NoRequest
            /\ iolog' = <<>>
            /\ UNCHANGED <<stdin, pending, deadAtStart>>
       ELSE /\ Len(stdin) < PipeCap
            /\ stdin' = Append(stdin, request)
            /\ iolog' = Append(iolog, request)
            /\ pending' = pending + 1
            /\ pc' = L.write_nl
            /\ UNCHANGED <<result, request, deadAtStart>>
    /\ UNCHANGED <<client, server_process, spawned, running, stdout, stdoutOpen, stdinOpen, orphanIn,
                   ready, files>>
    /\ UNCHANGED avars

WriteRequest == WriteRequestAt(DoLabels)

\* Lines 63-67: write_all(b"\n").await?, flush().await? (nothing is buffered
\* on a pipe: it returns Ok), then the read of the response starts.
WriteNewlineAt(L) ==
    /\ pc = L.write_nl
    /\ IF WriteAllFails
       THEN /\ result' = Res("IOError")
            /\ pc' = "idle"
            /\ request' = NoRequest
            /\ iolog' = <<>>
            /\ pending' = pending - 1
            /\ UNCHANGED <<stdin, deadAtStart>>
       ELSE /\ Len(stdin) < PipeCap
            /\ stdin' = Append(stdin, InNL)
            /\ iolog' = Append(Append(iolog, InNL), Flushed)
            /\ pc' = L.read
            /\ UNCHANGED <<result, request, deadAtStart, pending>>
    /\ UNCHANGED <<client, server_process, spawned, running, stdout, stdoutOpen, stdinOpen, orphanIn,
                   ready, files>>
    /\ UNCHANGED avars

WriteNewline == WriteNewlineAt(DoLabels)

\* Lines 68-87: read_line on a fresh BufReader completes within the deadline.
\* The BufReader is dropped with the bytes it took after the line.
ReadLineAt(L) ==
    /\ pc = L.read
    /\ LineAvailable
    /\ result' = ReadOutcome(FirstLine(stdout))
    /\ stdout' \in LeftInPipe(AfterLine(stdout))
    /\ pc' = "idle"
    /\ request' = NoRequest
    /\ iolog' = <<>>
    /\ pending' = pending - 1
    /\ UNCHANGED <<client, server_process, spawned, running, stdin, stdoutOpen, stdinOpen, orphanIn,
                   ready, deadAtStart, files>>
    /\ UNCHANGED avars

ReadLine == ReadLineAt(DoLabels)

\* Lines 88-90: the deadline expires first.  read_line took every byte as it
\* arrived while it looked for the newline; the cancelled read_line and its
\* BufReader are dropped with the bytes of the unfinished line.
ReadTimeoutAt(L) ==
    /\ pc = L.read
    /\ ~LineAvailable
    /\ result' = Res("Timeout")
    /\ stdout' = <<>>
    /\ pc' = "idle"
    /\ request' = NoRequest
    /\ iolog' = <<>>
    /\ pending' = pending - 1
    /\ UNCHANGED <<client, server_process, spawned, running, stdin, stdoutOpen, stdinOpen, orphanIn,
                   ready, deadAtStart, files>>
    /\ UNCHANGED avars

ReadTimeout == ReadTimeoutAt(DoLabels)

\* ------------------------------------------------ MCPClient::write_file
\* Lines 97-121: the readiness check, the envelope and its serialization.
WfCall(path, content) ==
    /\ client = "live"
    /\ IF server_process # None
       THEN /\ pc' = "wf_write_req"
            /\ request' = WfSerialize(path, content)
            /\ deadAtStart' = ChildExited
            /\ result' = Res("none")
       ELSE /\ result' = Res("NotReady")
            /\ deadAtStart' = FALSE
            /\ UNCHANGED <<pc, request>>
    /\ iolog' = <<>>
    /\ UNCHANGED <<client, server_process, spawned, running, stdin, stdout, stdoutOpen, stdinOpen, orphanIn,
                   ready, pending, files>>

WriteFile ==
    /\ agentPc = "off"
    /\ NoOperationInProgress
    /\ UNCHANGED avars
    /\ \E p \in Paths, c \in Contents : WfCall(p, c)

\* Line 124: stdin.write_all(request).await?
WfWriteRequest ==
    /\ pc = "wf_write_req"
    /\ IF PipeBroken
       THEN /\ result' = Res("IOError")
            /\ pc' = "idle"
            /\ request' = NoRequest
            /\ iolog' = <<>>
            /\ UNCHANGED <<stdin, pending, deadAtStart>>
       ELSE /\ Len(stdin) < PipeCap
            /\ stdin' = Append(stdin, request)
            /\ iolog' = Append(iolog, request)
            /\ pending' = pending + 1
            /\ pc' = "wf_write_nl"
            /\ UNCHANGED <<result, request, deadAtStart>>
    /\ UNCHANGED <<client, server_process, spawned, running, stdout, stdoutOpen, stdinOpen, orphanIn,
                   ready, files>>
    /\ UNCHANGED avars

\* Lines 125-129: write_all(b"\n").await?, flush().await?, then the read.
WfWriteNewline ==
    /\ pc = "wf_write_nl"
    /\ IF PipeBroken
       THEN /\ result' = Res("IOError")
            /\ pc' = "idle"
            /\ request' = NoRequest
            /\ iolog' = <<>>
            /\ pending' = pending - 1
            /\ UNCHANGED <<stdin, deadAtStart>>
       ELSE /\ Len(stdin) < PipeCap
            /\ stdin' = Append(stdin, InNL)
            /\ iolog' = Append(Append(iolog, InNL), Flushed)
            /\ pc' = "wf_read"
            /\ UNCHANGED <<result, request, deadAtStart, pending>>
    /\ UNCHANGED <<client, server_process, spawned, running, stdout, stdoutOpen, stdinOpen, orphanIn,
                   ready, files>>
    /\ UNCHANGED avars

\* Mutant: write_file takes an empty line for a success.
WfEvaluate_EmptyIsOk(line) ==
    IF line = <<>> THEN Res("Ok")
    ELSE IF ~Decodes(line) THEN Res("MalformedToolResponse")
    ELSE IF ErrorField(line) # "none" THEN ToolError(ErrorField(line))
    ELSE Res("Ok")

\* Lines 139-148 of write_file: the outcome of a read that completed with `line`.
WfEvaluate(line) ==
    IF line = <<>> THEN Res("EmptyResponse")
    ELSE IF ~Decodes(line) THEN Res("MalformedToolResponse")
    ELSE IF ErrorField(line) # "none" THEN ToolError(ErrorField(line))
    ELSE Res("Ok")

\* Lines 136-149 of write_file: `result?`, then the evaluation of the line.
WfReadOutcome(line) == IF ~IsUtf8(line) THEN Res("IOError") ELSE WfEvaluate(line)

\* Lines 130-149: read_line on a fresh BufReader completes within the deadline.
WfReadLine ==
    /\ pc = "wf_read"
    /\ LineAvailable
    /\ result' = WfReadOutcome(FirstLine(stdout))
    /\ stdout' \in LeftInPipe(AfterLine(stdout))
    /\ pc' = "idle"
    /\ request' = NoRequest
    /\ iolog' = <<>>
    /\ pending' = pending - 1
    /\ UNCHANGED <<client, server_process, spawned, running, stdin, stdoutOpen, stdinOpen, orphanIn,
                   ready, deadAtStart, files>>
    /\ UNCHANGED avars

\* Lines 150-152: the deadline expires first.
WfReadTimeout ==
    /\ pc = "wf_read"
    /\ ~LineAvailable
    /\ result' = Res("Timeout")
    /\ stdout' = <<>>
    /\ pc' = "idle"
    /\ request' = NoRequest
    /\ iolog' = <<>>
    /\ pending' = pending - 1
    /\ UNCHANGED <<client, server_process, spawned, running, stdin, stdoutOpen, stdinOpen, orphanIn,
                   ready, deadAtStart, files>>
    /\ UNCHANGED avars

\* ------------------------------------------------ impl Drop for MCPClient
\* Lines 11-18: take() the child, call kill() (not awaited), drop the child:
\* both pipes close on the client's side.
Drop ==
    /\ client = "live"
    /\ NoOperationInProgress
    /\ client' = "dropped"
    /\ server_process' = None
    /\ running' = RunningAfterDrop(server_process, running)
    /\ orphanIn' = Released(server_process, stdin, orphanIn)
    /\ stdin' = <<>>
    /\ stdinOpen' = FALSE
    /\ stdout' = <<>>
    /\ stdoutOpen' = FALSE
    /\ ready' = FALSE
    /\ UNCHANGED <<spawned, pc, request, result, deadAtStart, iolog, pending, files>>
    /\ agentPc = "off"
    /\ UNCHANGED avars

\* ------------------------------------------- the tool-server subprocess
(* The client spawns a launcher (`npx`), and what the launcher starts       *)
(* inherits its pipes: the server's ends of the pipes of the held Child are  *)
(* open as long as some process of that tree holds them, whether or not the  *)
(* process the client spawned is still running.                              *)
\* The server reads one token of its input and ignores it.
ServerRead ==
    /\ stdinOpen
    /\ stdin # <<>>
    /\ stdin' = Tail(stdin)
    /\ UNCHANGED <<client, server_process, spawned, running, stdout, stdoutOpen, stdinOpen, orphanIn,
                   ready, pc, request, result, deadAtStart, iolog, pending, files>>
    /\ UNCHANGED avars

\* The server reads one whole request line and executes write_file.
ServerExec ==
    /\ stdinOpen
    /\ Len(stdin) >= 2
    /\ stdin[1] # InNL /\ stdin[2] = InNL
    /\ IsWriteFile(stdin[1])
    /\ files' = [files EXCEPT ![JsonStringValue(stdin[1][3])] = JsonStringValue(stdin[1][4])]
    /\ stdin' = SubSeq(stdin, 3, Len(stdin))
    /\ UNCHANGED <<client, server_process, spawned, running, stdout, stdoutOpen, stdinOpen, orphanIn,
                   ready, pc, request, result, deadAtStart, iolog, pending>>
    /\ UNCHANGED avars

\* The server writes one token to its output.
ServerEmit ==
    /\ stdoutOpen
    /\ \E tok \in OutTokens :
        \E out \in Written(stdout, tok) :
            /\ Len(out) <= OutCap
            /\ stdout' = out
    /\ UNCHANGED <<client, server_process, spawned, running, stdin, stdoutOpen, stdinOpen, orphanIn,
                   ready, pc, request, result, deadAtStart, iolog, pending, files>>
    /\ UNCHANGED avars

\* The last process that holds the write end of the output pipe closes it
\* (or exits).
ServerCloseStdout ==
    /\ stdoutOpen
    /\ stdoutOpen' = FALSE
    /\ UNCHANGED <<client, server_process, spawned, running, stdin, stdout, stdinOpen, orphanIn,
                   ready, pc, request, result, deadAtStart, iolog, pending, files>>
    /\ UNCHANGED avars

\* The last process that holds the read end of the input pipe closes it (or
\* exits): the bytes not read are discarded, and the pipe has no reader any more.
ServerCloseStdin ==
    /\ stdinOpen
    /\ stdinOpen' = FALSE
    /\ stdin' = <<>>
    /\ UNCHANGED <<client, server_process, spawned, running, stdout, stdoutOpen, orphanIn,
                   ready, pc, request, result, deadAtStart, iolog, pending, files>>
    /\ UNCHANGED avars

\* A process the client spawned exits.  Its pipes stay as they are: they
\* are closed by the last process that holds them (ServerCloseStdin,
\* ServerCloseStdout, OrphanRead), before this exit or after it.
ServerExit ==
    /\ \E pid \in running : running' = running \ {pid}
    /\ UNCHANGED <<client, server_process, spawned, stdin, stdout, stdoutOpen, stdinOpen, orphanIn,
                   ready, pc, request, result, deadAtStart, iolog, pending, files>>
    /\ UNCHANGED avars

\* The server of a Child that is no longer held reads one request line left
\* in its pipe and ignores it (or closes the pipe with the line unread).
OrphanRead ==
    /\ \E pid \in Pids \ {server_process} :
        /\ orphanIn[pid] # <<>>
        /\ orphanIn' = [orphanIn EXCEPT ![pid] = Tail(orphanIn[pid])]
    /\ UNCHANGED <<client, server_process, spawned, running, stdin, stdout, stdoutOpen, stdinOpen,
                   ready, pc, request, result, deadAtStart, iolog, pending, files>>
    /\ UNCHANGED avars

\* The server of a Child that is no longer held reads one request line left
\* in its pipe and executes write_file.
OrphanExec ==
    /\ \E pid \in Pids \ {server_process} :
        LET unread == orphanIn[pid]
        IN  /\ unread # <<>>
            /\ files' = [files EXCEPT ![JsonStringValue(unread[1][3])] = JsonStringValue(unread[1][4])]
            /\ orphanIn' = [orphanIn EXCEPT ![pid] = Tail(unread)]
    /\ UNCHANGED <<client, server_process, spawned, running, stdin, stdout, stdoutOpen, stdinOpen,
                   ready, pc, request, result, deadAtStart, iolog, pending>>
    /\ UNCHANGED avars

\* ------------------------------------------------- the model's reply text
(* A reply is a sequence of tokens: the braces "{" and "}", "p" (a chunk of  *)
(* prose without braces), and, only directly between a "{" and a "}", a      *)
(* directive token: the members of one MCPRequest object.  The text          *)
(*   { {w1} {u} }   stands for   {"mcp_requests":[{..w1..},{..u..}]}         *)
(* "w1" and "w2" are write_file with a path and a content, "wn" is          *)
(* write_file with a path and no content, "u" is another action.            *)
DirTokens == {"w1", "w2", "wn", "u"}

\* The MCPRequest a directive token spells.
DirectiveOf(tok) ==
    CASE tok = "w1" -> [action |-> "write_file", path |-> "a.txt", content |-> "c1"]
      [] tok = "w2" -> [action |-> "write_file", path |-> "a.txt", content |-> TwoLines]
      [] tok = "wn" -> [action |-> "write_file", path |-> "a.txt", content |-> NotAString]
      [] OTHER -> [action |-> "delete_file", path |-> "a.txt", content |-> "c1"]

RECURSIVE FindLast(_, _, _)
\* str::rfind: greatest index <= i of s holding c, 0 if none.
FindLast(s, c, i) ==
    IF i < 1 THEN 0
    ELSE IF s[i] = c THEN i
    ELSE FindLast(s, c, i - 1)

\* Mutant: the object is taken to end at the first closing brace.
ExtractJson_FirstClose(raw) ==
    LET json_start == FindFirst(raw, "{", 1)
        json_end == FindFirst(raw, "}", 1)
    IN  IF json_start # 0 /\ json_end # 0
        THEN IF json_start > json_end + 1
             THEN [panic |-> TRUE, text |-> <<>>]
             ELSE [panic |-> FALSE, text |-> SubSeq(raw, json_start, json_end)]
        ELSE [panic |-> FALSE, text |-> raw]

\* Lines 54-68 of LocalOllamaClient::complete: the text handed to run_once.
\* &raw[json_start..=json_end] panics when json_start > json_end + 1.
ExtractJson(raw) ==
    LET json_start == FindFirst(raw, "{", 1)
        json_end == FindLast(raw, "}", Len(raw))
    IN  IF json_start # 0 /\ json_end # 0
        THEN IF json_start > json_end + 1
             THEN [panic |-> TRUE, text |-> <<>>]
             ELSE [panic |-> FALSE, text |-> SubSeq(raw, json_start, json_end)]
        ELSE [panic |-> FALSE, text |-> raw]

\* serde_json::from_str::<ModelResponse>(text) succeeds: the text is one
\* object whose mcp_requests array holds only MCPRequest objects.
IsModelResponse(text) ==
    /\ Len(text) >= 2
    /\ text[1] = "{"
    /\ text[Len(text)] = "}"
    /\ (Len(text) - 2) % 3 = 0
    /\ \A k \in 1..((Len(text) - 2) \div 3) :
          /\ text[3 * k - 1] = "{"
          /\ text[3 * k] \in DirTokens
          /\ text[3 * k + 1] = "}"

\* agent_response.mcp_requests of a text that decodes.
McpRequests(text) ==
    [k \in 1..((Len(text) - 2) \div 3) |-> DirectiveOf(text[3 * k])]

MaxDirs == 2    \* directives in one reply

\* The text of a reply object holding the directive tokens ds.
RECURSIVE Flatten(_)
Flatten(ds) ==
    IF ds = <<>> THEN <<>> ELSE <<"{", Head(ds), "}">> \o Flatten(Tail(ds))

DocText(ds) == <<"{">> \o Flatten(ds) \o <<"}">>

DirLists == UNION {[1..n -> DirTokens] : n \in 0..MaxDirs}

\* The replies the model may give to the agent: every reply object of up to
\* MaxDirs directives, bare or wrapped in prose, prose alone, and text whose
\* braces hold no reply object.
Replies ==
    {DocText(ds) : ds \in DirLists}
        \cup {<<"p">> \o DocText(ds) \o <<"p">> : ds \in [1..1 -> DirTokens]}
        \cup {<<>>, <<"p">>, <<"p", "p">>, <<"{", "p", "}">>, <<"}", "p", "{">>}

\* ------------------------------------------------------ main and the agent
\* The agent with its MCPServer: the test server of agent/mod.rs, or the
\* MCPClient that main hands to Agent::new.
AgentInit ==
    /\ ClientNew
    /\ mcp_server \in {"local", "remote"}
    /\ agentPc = IF mcp_server = "remote" THEN "start" ELSE "idle"
    /\ todo = <<>>
    /\ reply = <<>>
    /\ dispatched = <<>>
    /\ agentResult = Res("none")

\* main, line 12: mcp_client.init().await? -- a spawn failure ends the program.
MainInitFails ==
    /\ agentPc = "start"
    /\ SpawnFails
    /\ agentPc' = "exit"
    /\ UNCHANGED <<mcp_server, todo, reply, dispatched, agentResult>>

MainInit ==
    /\ agentPc = "start"
    /\ SpawnAndStore
    /\ agentPc' = "init"
    /\ UNCHANGED <<mcp_server, todo, reply, dispatched, agentResult>>

MainInitDone ==
    /\ agentPc = "init"
    /\ WarmupOver
    /\ agentPc' = "idle"
    /\ UNCHANGED <<mcp_server, todo, reply, dispatched, agentResult>>

\* main, lines 44-45 / run_once, line 41: an iteration starts and awaits the model.
AgentRunOnce ==
    /\ agentPc = "idle"
    /\ agentPc' = "await_model"
    /\ reply' = <<>>
    /\ dispatched' = <<>>
    /\ agentResult' = Res("none")
    /\ UNCHANGED <<tvars, files, mcp_server, todo>>

\* run_once, line 41: complete() fails (the request, or the response body) and
\* `?` returns the failure.
AgentModelFails ==
    /\ agentPc = "await_model"
    /\ agentPc' = "idle"
    /\ \E kind \in {"UpstreamError", "MalformedModelOutput"} : agentResult' = Res(kind)
    /\ UNCHANGED <<tvars, files, mcp_server, todo, reply, dispatched>>

\* Mutant: a reply that does not decode counts as a reply without requests.
Parsed_Lenient(raw) ==
    LET ex == ExtractJson(raw)
    IN  IF ex.panic THEN [outcome |-> "Panic", requests |-> <<>>]
        ELSE IF IsModelResponse(ex.text)
             THEN [outcome |-> "Parsed", requests |-> McpRequests(ex.text)]
             ELSE [outcome |-> "Parsed", requests |-> <<>>]

\* What run_once does with the text complete() hands it (lines 44-52): the
\* requests to dispatch, or the failure.
Parsed(raw) ==
    LET ex == ExtractJson(raw)
    IN  IF ex.panic THEN [outcome |-> "Panic", requests |-> <<>>]
        ELSE IF IsModelResponse(ex.text)
             THEN [outcome |-> "Parsed", requests |-> McpRequests(ex.text)]
             ELSE [outcome |-> "ParseError", requests |-> <<>>]

\* run_once, lines 44-55, on the text `raw` that complete() returned: a text
\* that does not decode ends the iteration with the failure, one that decodes
\* enters the dispatch loop, which ends at once on an empty list.
AfterReply(raw) ==
    LET p == Parsed(raw)
    IN  CASE p.outcome = "Panic" ->
               /\ agentPc' = "crashed"
               /\ agentResult' = Res("Panic")
               /\ todo' = <<>>
          [] p.outcome = "ParseError" ->
               /\ agentPc' = "idle"
               /\ agentResult' = Res("ParseError")
               /\ todo' = <<>>
          [] OTHER ->
               /\ todo' = p.requests
               /\ agentPc' = IF p.requests = <<>> THEN "idle" ELSE "dispatch"
               /\ agentResult' = IF p.requests = <<>> THEN Res("Ok") ELSE agentResult

\* complete() returns the reply `raw` (model_client lines 53-68) and run_once
\* goes on with it.
ModelRepliesFrom(texts) ==
    /\ agentPc = "await_model"
    /\ \E raw \in texts :
        /\ reply' = raw
        /\ AfterReply(raw)
    /\ UNCHANGED <<tvars, files, mcp_server, dispatched>>

AgentModelReplies == ModelRepliesFrom(Replies)

\* Mutant: the loop hands over the next request without waiting for the call
\* before it.
InDispatchLoop_NoWait == agentPc \in {"dispatch", "in_call"}

\* run_once, lines 55-57: the loop hands the next request to the server only
\* after handle_request has returned for the one before it.
InDispatchLoop == agentPc = "dispatch"

\* create_dir_all(parent): the directory exists afterwards; fails when the
\* node is a file.  The server's own directory always exists.
CreateDirAll(parent, fs) ==
    IF parent = Root THEN [ok |-> TRUE, files |-> fs]
    ELSE IF fs[parent] \in {NoFile, Dir} THEN [ok |-> TRUE, files |-> [fs EXCEPT ![parent] = Dir]]
    ELSE [ok |-> FALSE, files |-> fs]

\* Lines 79-80: args["path"].as_str() and args["content"].as_str() are Some.
HasStringArgs(req) == req.path # NotAString /\ req.content # NotAString

\* Mutant: the parent directory is not created.
LocalHandle_NoParent(req, fs) ==
    IF req.action = "write_file"
    THEN IF ~HasStringArgs(req)
         THEN [res |-> Res("Panic"), files |-> fs]
         ELSE [res |-> Res("Ok"), files |-> [fs EXCEPT ![req.path] = req.content]]
    ELSE [res |-> Res("Unsupported"), files |-> fs]

\* TestMCPServer::handle_request (agent/mod.rs lines 75-90) on one request:
\* the unwrap() of a path or content that is not a string panics before
\* anything is written; then create_dir_all(parent)?, then
\* fs::write(path, content)?, which replaces the file's content and fails on
\* a directory.
LocalHandle(req, fs) ==
    IF req.action = "write_file"
    THEN IF ~HasStringArgs(req)
         THEN [res |-> Res("Panic"), files |-> fs]
         ELSE LET made == CreateDirAll(Parent(req.path), fs)
              IN  IF ~made.ok \/ made.files[req.path] = Dir
                  THEN [res |-> Res("IOError"), files |-> made.files]
                  ELSE [res |-> Res("Ok"), files |-> [made.files EXCEPT ![req.path] = req.content]]
    ELSE [res |-> Res("Unsupported"), files |-> fs]

\* Mutant: the loop takes the requests from the back of the list.
NextRequest_Last(t) == t[Len(t)]

\* run_once, line 55: `for request in agent_response.mcp_requests` takes the
\* requests from the front of the list.
NextRequest(t) == Head(t)

\* Mutant: the loop goes on with the next request after a failure.
RestAfter_Continue(outcome, t) == Tail(t)

\* run_once, line 56: `handle_request(request)?` -- after a failure the `?`
\* returns from run_once and the rest of the list is dropped; after a
\* success the loop goes on with the requests that follow.
RestAfter(outcome, t) == IF outcome.kind = "Ok" THEN Tail(t) ELSE <<>>

\* run_once, lines 55-59, with the local server: one turn of the loop.  A
\* panic in handle_request unwinds run_once: it does not return.
AgentDispatchLocal ==
    /\ InDispatchLoop
    /\ mcp_server = "local"
    /\ todo # <<>>
    /\ LET h == LocalHandle(NextRequest(todo), files)
       IN  /\ files' = h.files
           /\ dispatched' = Append(dispatched, [request |-> NextRequest(todo), outcome |-> h.res])
           /\ todo' = RestAfter(h.res, todo)
           /\ agentPc' = IF h.res.kind = "Panic" THEN "crashed"
                         ELSE IF RestAfter(h.res, todo) = <<>> THEN "idle"
                         ELSE "dispatch"
           /\ agentResult' = IF h.res.kind # "Ok" THEN h.res
                             ELSE IF RestAfter(h.res, todo) = <<>> THEN Res("Ok")
                             ELSE agentResult
    /\ UNCHANGED <<tvars, mcp_server, reply>>

\* Remote forwarding: the directive wrapped into the transport's envelope
\* (action name + arguments) and handed to the transport's call.
AgentDispatchRemote ==
    /\ InDispatchLoop
    /\ mcp_server = "remote"
    /\ todo # <<>>
    /\ Call(Envelope(NextRequest(todo).action, NextRequest(todo).path,
                     NextRequest(todo).content, "1"))
    /\ agentPc' = "in_call"
    /\ dispatched' = Append(dispatched, [request |-> NextRequest(todo), outcome |-> Res("none")])
    /\ UNCHANGED <<mcp_server, todo, reply, agentResult>>

\* run_once, lines 56-59: the call has returned; `?` ends the loop on a failure.
AgentCallReturns ==
    /\ agentPc = "in_call"
    /\ pc = "idle"
    /\ todo' = RestAfter(result, todo)
    /\ agentPc' = IF RestAfter(result, todo) = <<>> THEN "idle" ELSE "dispatch"
    /\ agentResult' = IF result.kind # "Ok" THEN result
                      ELSE IF RestAfter(result, todo) = <<>> THEN Res("Ok")
                      ELSE agentResult
    /\ dispatched' = [dispatched EXCEPT ![Len(dispatched)].outcome = result]
    /\ result' = Res("none")
    /\ UNCHANGED <<client, server_process, spawned, running, stdin, stdout, stdoutOpen, stdinOpen, orphanIn,
                   ready, pc, request, deadAtStart, iolog, pending>>
    /\ UNCHANGED <<files, mcp_server, reply>>

AgentNext ==
    \/ MainInitFails
    \/ MainInit
    \/ MainInitDone
    \/ AgentRunOnce
    \/ AgentModelFails
    \/ AgentModelReplies
    \/ AgentDispatchLocal
    \/ AgentDispatchRemote
    \/ AgentCallReturns
    \/ WriteRequest
    \/ WriteNewline
    \/ ReadLine
    \/ ReadTimeout
    \/ ServerRead
    \/ ServerExec
    \/ ServerEmit
    \/ ServerCloseStdout
    \/ ServerCloseStdin
    \/ ServerExit

AgentSpec == AgentInit /\ [][AgentNext]_vars

Next ==
    \/ InitSpawnFails
    \/ InitSpawn
    \/ InitDone
    \/ DoRequest
    \/ WriteFile
    \/ WriteRequest
    \/ WriteNewline
    \/ ReadLine
    \/ ReadTimeout
    \/ WfWriteRequest
    \/ WfWriteNewline
    \/ WfReadLine
    \/ WfReadTimeout
    \/ Drop
    \/ ServerRead
    \/ ServerExec
    \/ ServerEmit
    \/ ServerCloseStdout
    \/ ServerCloseStdin
    \/ ServerExit
    \/ OrphanRead
    \/ OrphanExec

Spec == Init /\ [][Next]_vars

\* ------------------------------------ a client that is initialized once
\* new, init, calls, drop: the life of the client in the repository's tests
\* (mcp_client/mod.rs lines 174-175) and in main.
FirstInitFails == spawned = 0 /\ InitSpawnFails
FirstInit == spawned = 0 /\ InitSpawn

SessionNext ==
    \/ FirstInitFails
    \/ FirstInit
    \/ InitDone
    \/ DoRequest
    \/ WriteFile
    \/ WriteRequest
    \/ WriteNewline
    \/ ReadLine
    \/ ReadTimeout
    \/ WfWriteRequest
    \/ WfWriteNewline
    \/ WfReadLine
    \/ WfReadTimeout
    \/ Drop
    \/ ServerRead
    \/ ServerExec
    \/ ServerEmit
    \/ ServerCloseStdout
    \/ ServerCloseStdin
    \/ ServerExit
    \/ OrphanRead
    \/ OrphanExec

SessionSpec == Init /\ [][SessionNext]_vars

\* The steps of a call in progress.  The runtime polls a future whose I/O is
\* ready or whose timer has expired, so a step that stays possible is taken.
CallStep ==
    \/ WriteRequest \/ WriteNewline \/ ReadLine \/ ReadTimeout
    \/ WfWriteRequest \/ WfWriteNewline \/ WfReadLine \/ WfReadTimeout

FairSpec == Spec /\ WF_vars(CallStep)

\* init(), lines 38-41: the caller drops the future of init() while it sleeps
\* (a timeout or select! around it).  server_process was stored before the sleep.
AbandonInit ==
    /\ pc = "init_sleep"
    /\ agentPc = "off"
    /\ pc' = "idle"
    /\ UNCHANGED <<client, server_process, spawned, running, stdin, stdout, stdoutOpen, stdinOpen, orphanIn,
                   ready, request, result, deadAtStart, iolog, pending, files>>
    /\ UNCHANGED avars

AbandonNext ==
    \/ Next
    \/ AbandonInit

AbandonSpec == Init /\ [][AbandonNext]_vars

\* ------------------------------------- a server that answers in order
\* A caller that numbers its requests.
OrderlyRequests ==
    {Envelope("write_file", p, c, id) : p \in Paths, c \in Contents, id \in CallIds}
        \cup {Envelope("read_file", p, "none", id) : p \in Paths, id \in CallIds}

OrderlyCall ==
    /\ agentPc = "off"
    /\ NoOperationInProgress
    /\ UNCHANGED avars
    /\ \E req \in OrderlyRequests : Call(req)

\* The held subprocess reads one request line, executes it, and answers it
\* with exactly one response line, the response to that request.
ServerAnswer ==
    /\ stdinOpen
    /\ stdoutOpen
    /\ Len(stdin) >= 2
    /\ stdin[1] # InNL /\ stdin[2] = InNL
    /\ Len(stdout) + 2 <= OutCap
    /\ stdin' = SubSeq(stdin, 3, Len(stdin))
    /\ \E out \in Written(stdout, ResponseTo(stdin[1][5])) : stdout' \in Written(out, NL)
    /\ files' = IF IsWriteFile(stdin[1])
                THEN [files EXCEPT ![JsonStringValue(stdin[1][3])] = JsonStringValue(stdin[1][4])]
                ELSE files
    /\ UNCHANGED <<client, server_process, spawned, running, stdoutOpen, stdinOpen, orphanIn,
                   ready, pc, request, result, deadAtStart, iolog, pending>>
    /\ UNCHANGED avars

OrderlyNext ==
    \/ InitSpawn
    \/ InitDone
    \/ OrderlyCall
    \/ WriteRequest
    \/ WriteNewline
    \/ ReadLine
    \/ ReadTimeout
    \/ ServerAnswer
    \/ OrphanRead
    \/ OrphanExec

OrderlySpec == Init /\ [][OrderlyNext]_vars

\* ------------------------------- the agent with the local server only
MaxLongDirs == 3   \* directives in one reply handed to the local server

\* Every reply object of up to MaxLongDirs directives.
LongReplies == {DocText(ds) : ds \in UNION {[1..n -> DirTokens] : n \in 0..MaxLongDirs}}

\* Agent::new with the test server (agent/mod.rs, acceptance test).
LocalInit ==
    /\ ClientNew
    /\ mcp_server = "local"
    /\ agentPc = "idle"
    /\ todo = <<>>
    /\ reply = <<>>
    /\ dispatched = <<>>
    /\ agentResult = Res("none")

LocalModelReplies == ModelRepliesFrom(LongReplies)

LocalNext ==
    \/ AgentRunOnce
    \/ AgentModelFails
    \/ LocalModelReplies
    \/ AgentDispatchLocal

LocalSpec == LocalInit /\ [][LocalNext]_vars

\* ---------------------------------------------- the local server alone
\* The filesystems that write_file directives can have produced.
ReachableFs ==
    {fs \in [FsNodes -> Contents \cup {NoFile, Dir}] :
        /\ \A p \in FilePaths : fs[p] # Dir
        /\ fs["out"] \in {NoFile, Dir}
        /\ (fs["out"] = NoFile => fs["out/a.txt"] = NoFile)}

\* The directives the local server is handed: write_file for every path and
\* content, write_file without a string path or without a string content,
\* and an action it does not support.
Directives ==
    {[action |-> "write_file", path |-> p, content |-> c] : p \in FilePaths, c \in Contents}
        \cup {[action |-> "write_file", path |-> NotAString, content |-> "c1"],
              [action |-> "write_file", path |-> "a.txt", content |-> NotAString],
              [action |-> "write_file", path |-> NotAString, content |-> NotAString]}
        \cup {[action |-> "delete_file", path |-> p, content |-> "none"] : p \in FilePaths}

\* run_once is in its dispatch loop with up to MaxDirs directives to go, the
\* server's directory in any state earlier write_file directives left.
HandlerInit ==
    /\ ClientNoFs
    /\ files \in ReachableFs
    /\ mcp_server = "local"
    /\ agentPc = "dispatch"
    /\ todo \in UNION {[1..n -> Directives] : n \in 1..MaxDirs}
    /\ reply = <<>>
    /\ dispatched = <<>>
    /\ agentResult = Res("none")

HandlerNext == AgentDispatchLocal

HandlerSpec == HandlerInit /\ [][HandlerNext]_vars

\* ------------------------------------------------- the reply parser alone
MaxTextLen == 7   \* tokens in a reply text

TextAlphabet == {"{", "}", "p", "w1"}

\* A directive token stands for members between the braces of an object: it
\* has an opening brace somewhere before it and a closing brace after it.
WellFormed(text) ==
    \A i \in 1..Len(text) :
        text[i] \in DirTokens
            => /\ \E j \in 1..(i - 1) : text[j] = "{"
               /\ \E k \in (i + 1)..Len(text) : text[k] = "}"

\* Every reply text of up to MaxTextLen tokens.
Texts ==
    {t \in UNION {[1..n -> TextAlphabet] : n \in 0..MaxTextLen} : WellFormed(t)}

\* The model has answered with some text; the agent is about to parse it.
ParserInit ==
    /\ ClientNew
    /\ mcp_server = "local"
    /\ agentPc = "await_model"
    /\ todo = <<>>
    /\ reply \in Texts
    /\ dispatched = <<>>
    /\ agentResult = Res("none")

\* complete(), lines 53-68, and run_once, lines 44-55, on that text.
ParseText ==
    /\ agentPc = "await_model"
    /\ AfterReply(reply)
    /\ UNCHANGED <<tvars, files, mcp_server, reply, dispatched>>

ParserNext == ParseText

ParserSpec == ParserInit /\ [][ParserNext]_vars

\* ------------------------------------------------------------------ claims
InCall ==
    pc \in {"write_req", "write_nl", "read", "wf_write_req", "wf_write_nl", "wf_read"}

\* C1: on a client whose init() has never been run, every call (do_request and
\* write_file) returns NotReady and does no I/O: no byte is written to or read
\* from a subprocess, none is spawned, no file changes.
C1_CallBeforeInitIsNotReady ==
    [][(spawned = 0 /\ (DoRequest \/ WriteFile))
          => /\ result'.kind = "NotReady"
             /\ pc' = "idle"
             /\ UNCHANGED <<server_process, spawned, running, stdin, stdout, stdoutOpen, stdinOpen, orphanIn,
                            pending, files>>]_vars

C1_Witness == spawned = 0 /\ result.kind = "NotReady" /\ pc = "idle"

\* C2 (as claimed): once a call has returned Timeout the transport is Failed for
\* good: a later call fails without writing to the subprocess or reading from
\* it, so it is either refused at once or goes to a write that cannot succeed.
C2_TimeoutIsTerminal ==
    [][(result.kind = "Timeout" /\ (DoRequest \/ WriteFile))
          => (pc' = "idle" \/ PipeBroken')]_vars

\* C3 (as claimed): when the client handle is dropped, the subprocess it held
\* is not running once the drop has completed.
C3_DropTerminatesSubprocess ==
    [][(client = "live" /\ client' = "dropped") => server_process \notin running']_vars

\* C4: at most one PendingCall: never is a request written while an earlier
\* request has been written and its call has neither returned nor timed out.
C4_AtMostOnePendingCall == pending <= 1

C4_Witness ==
    /\ reply = DocText(<<"w1", "w2">>)
    /\ Len(todo) = 1
    /\ agentPc = "in_call"
    /\ pc = "read"
    /\ pending = 1

\* C5 (as claimed): a call that reads a non-empty line fails with
\* MalformedToolResponse when the line is not one JSON value, fails with
\* ToolError carrying the payload of the line's error member when it has one,
\* and otherwise returns Ok leaving the transport able to accept the next call.
C5_ResponseLineOutcome ==
    [][((ReadLine \/ WfReadLine) /\ FirstLine(stdout) # <<>>)
          => LET line == FirstLine(stdout)
             IN  IF ~Decodes(line)
                 THEN result'.kind = "MalformedToolResponse"
                 ELSE IF Body(line)[1] \in {"e1", "e2"}
                      THEN /\ result'.kind = "ToolError"
                           /\ result'.payload = (IF Body(line)[1] = "e1" THEN "1" ELSE "2")
                      ELSE /\ result' = Res("Ok")
                           /\ pc' = "idle"
                           /\ client' = "live"
                           /\ server_process' = server_process
                           /\ server_process' # None]_vars

\* C6 (as claimed): once a call has returned EmptyResponse the transport is
\* Failed: no later call is accepted and nothing more is written to the subprocess.
C6_EmptyResponseFailsTransport ==
    [][result.kind = "EmptyResponse"
          => (pc' \notin {"write_req", "wf_write_req"} /\ Len(stdin') <= Len(stdin))]_vars

\* C7 (as claimed): every call issued on an initialized transport eventually
\* returns, whatever the subprocess does.
C7_EveryCallReturns == InCall ~> (pc = "idle")

\* C8 (as claimed): a call issued after the held subprocess has exited fails,
\* writes no byte to the subprocess's input and changes no file (a file
\* changes during the call only when a subprocess held earlier executes a
\* request of an earlier call).
C8_CallAfterDeathHasNoEffect ==
    [][(deadAtStart /\ InCall)
          => /\ stdin' = stdin
             /\ (files' = files \/ OrphanExec)
             /\ pc' \in {"idle", pc}
             /\ (pc' = "idle" => result'.kind = "IOError")]_vars

\* C9 (as claimed): no call is accepted (none writes to the subprocess) unless
\* init() has completed its warm-up wait for the held subprocess, also when
\* init() is abandoned during the wait.
C9_NoCallBeforeWarmup == InCall => ready

\* A reply of prose only: no brace and no directive in it.
IsProse(text) == \A i \in 1..Len(text) : text[i] = "p"

\* C10: when the model's reply holds only prose, run_once fails with ParseError
\* and has no side effect: no directive is dispatched, nothing is written to or
\* read from the tool subprocess, no file changes.
C10_ProseReplyIsParseError ==
    [][(AgentModelReplies /\ IsProse(reply'))
          => /\ agentResult'.kind = "ParseError"
             /\ agentPc' = "idle"
             /\ todo' = <<>>
             /\ UNCHANGED <<tvars, files>>]_vars

C10_Witness ==
    /\ reply = <<"p", "p">>
    /\ agentResult.kind = "ParseError"
    /\ agentPc = "idle"
    /\ mcp_server = "remote"
    /\ server_process \in running

\* A directive object can be decoded from the text: from the whole text, or
\* from the substring that runs from its first "{" to its last "}".
Decodable(text) ==
    LET a == FindFirst(text, "{", 1)
        b == FindLast(text, "}", Len(text))
    IN  \/ IsModelResponse(text)
        \/ (a # 0 /\ b # 0 /\ a <= b /\ IsModelResponse(SubSeq(text, a, b)))

\* C11 (as claimed): every reply text from which no directive object can be
\* decoded makes parsing fail with ParseError, wherever its braces stand, and
\* ends in no other outcome.
C11_UndecodableReplyIsParseError ==
    (agentPc # "await_model" /\ ~Decodable(reply))
        => (agentResult.kind = "ParseError" /\ agentPc = "idle" /\ todo = <<>>)

\* The text holds no token `c`.
HasNo(text, c) == \A i \in 1..Len(text) : text[i] # c

\* Noise that is not JSON: prose and stray braces, no directive and no
\* opening brace that a later closing brace could match.
IsNonJson(text) ==
    /\ \A i \in 1..Len(text) : text[i] \in {"p", "{", "}"}
    /\ \A i, j \in 1..Len(text) : ~(i < j /\ text[i] = "{" /\ text[j] = "}")

\* The reply object (from..to) of the text was parsed: its directives, in
\* its order, are what run_once goes on with.
YieldsObject(from, to) ==
    /\ agentResult.kind \in {"none", "Ok"}
    /\ agentPc \in {"dispatch", "idle"}
    /\ todo = McpRequests(SubSeq(reply, from, to))

\* C12 (as claimed): a text made of non-JSON noise, one reply object and
\* non-JSON noise parses to exactly that object.
C12_NoiseAroundObject ==
    agentPc # "await_model"
        => \A from, to \in 1..Len(reply) :
              (/\ IsModelResponse(SubSeq(reply, from, to))
               /\ IsNonJson(SubSeq(reply, 1, from - 1))
               /\ IsNonJson(SubSeq(reply, to + 1, Len(reply))))
                  => YieldsObject(from, to)

\* C12 (amended): a text made of leading non-JSON noise without "{", one
\* reply object and trailing non-JSON noise without "}" parses to exactly
\* that object: the substring from the first "{" to the last "}" is the
\* object.  A "}" before the object and a "{" after it do no harm.
C12_ProseAroundObject ==
    agentPc # "await_model"
        => \A from, to \in 1..Len(reply) :
              (/\ IsModelResponse(SubSeq(reply, from, to))
               /\ IsNonJson(SubSeq(reply, 1, from - 1))
               /\ HasNo(SubSeq(reply, 1, from - 1), "{")
               /\ IsNonJson(SubSeq(reply, to + 1, Len(reply)))
               /\ HasNo(SubSeq(reply, to + 1, Len(reply)), "}"))
                  => (/\ YieldsObject(from, to)
                      /\ ExtractJson(reply).text = SubSeq(reply, from, to))

C12_Witness ==
    /\ reply = <<"}">> \o DocText(<<"w1">>) \o <<"{">>
    /\ agentPc = "dispatch"
    /\ todo = <<DirectiveOf("w1")>>

\* The first directive of the log whose dispatch failed, 0 if none did.
FirstFailed(log) ==
    IF \E i \in 1..Len(log) : log[i].outcome.kind \notin {"Ok", "none"}
    THEN CHOOSE i \in 1..Len(log) :
            /\ log[i].outcome.kind \notin {"Ok", "none"}
            /\ \A j \in 1..(i - 1) : log[j].outcome.kind \in {"Ok", "none"}
    ELSE 0

\* C13: run_once dispatches the directives in the order in which they were
\* parsed (the i-th directive handed to the server is the i-th of the reply),
\* and when a dispatch has failed, the failure run_once returns is that of the
\* first directive that failed.
C13_DispatchInOrder ==
    LET reqs == Parsed(reply).requests
    IN  /\ Len(dispatched) <= Len(reqs)
        /\ \A i \in 1..Len(dispatched) : dispatched[i].request = reqs[i]
        /\ (agentPc = "idle" /\ FirstFailed(dispatched) # 0)
              => agentResult = dispatched[FirstFailed(dispatched)].outcome

\* Two writes of the same file, then a directive that fails: the file holds
\* what the second write gave it, and run_once has returned the failure of
\* the third directive.
C13_Witness ==
    /\ reply = DocText(<<"w1", "w2", "u">>)
    /\ agentPc = "idle"
    /\ Len(dispatched) = 3
    /\ dispatched[1].outcome.kind = "Ok"
    /\ dispatched[2].outcome.kind = "Ok"
    /\ dispatched[3].outcome.kind = "Unsupported"
    /\ agentResult.kind = "Unsupported"
    /\ files["a.txt"] = TwoLines

\* C14 (as claimed): the continuous-run loop never stops: whenever an
\* iteration of run_once is over, however it ended, the next iteration can
\* start (and main's loop starts it at once).
C14_LoopNeverStops ==
    (mcp_server = "remote" /\ agentPc \in {"idle", "crashed"}) => ENABLED AgentRunOnce

\* C15: for every valid write_file directive (its path and its content are
\* strings), after its dispatch the target file holds exactly the supplied
\* content and its parent directory exists, whatever the file held before;
\* dispatching the same directive again would leave the filesystem as it is.
C15_WriteFileReplacesAndIsIdempotent ==
    [][(/\ AgentDispatchLocal
        /\ NextRequest(todo).action = "write_file"
        /\ HasStringArgs(NextRequest(todo)))
          => LET d == NextRequest(todo)
             IN  /\ dispatched'[Len(dispatched')].outcome = Res("Ok")
                 /\ files'[d.path] = d.content
                 /\ (Parent(d.path) # Root => files'[Parent(d.path)] = Dir)
                 /\ \A n \in FsNodes \ {d.path, Parent(d.path)} : files'[n] = files[n]
                 /\ LocalHandle(d, files').files = files']_vars

\* The same directive dispatched twice over a file that held something
\* else, in a directory that did not exist.
C15_Witness ==
    /\ Len(dispatched) = 2
    /\ dispatched[1] = dispatched[2]
    /\ dispatched[1].request = [action |-> "write_file", path |-> "out/a.txt", content |-> TwoLines]
    /\ dispatched[1].outcome = Res("Ok")
    /\ files["out/a.txt"] = TwoLines
    /\ files["out"] = Dir

\* C16: a call that starts reading has written to the subprocess exactly its
\* serialized request, which holds no newline byte, then exactly one newline
\* byte, and has flushed; a call whose write fails returns the I/O failure
\* without reading anything.
C16_RequestIsOneFlushedLine ==
    [][/\ (pc' \in {"read", "wf_read"})
            => /\ iolog' = <<request', InNL, Flushed>>
               /\ \A i \in 1..Len(request') : ~HoldsNewline(request'[i])
       /\ (pc \in {"write_req", "write_nl", "wf_write_req", "wf_write_nl"} /\ pc' = "idle")
            => /\ result'.kind = "IOError"
               /\ stdout' = stdout]_vars

\* A call whose content holds a newline byte is reading the response.
C16_Witness ==
    /\ pc = "read"
    /\ request = Serialize(Envelope("write_file", "a.txt", TwoLines, "1"))
    /\ iolog = <<request, InNL, Flushed>>

\* C18: write_file(path, content) takes the very steps do_request takes on
\* the envelope of write_file with that path and content: the same readiness
\* check and serialized request, the same writes, the same read with the same
\* deadline and the same outcome, and each of its steps is possible exactly
\* when that step of do_request is.
C18_WriteFileIsDoRequest ==
    [][/\ \A p \in Paths, c \in Contents :
             WfCall(p, c) => CallAt(Envelope("write_file", p, c, "1"), WfLabels)
       /\ WfWriteRequest => WriteRequestAt(WfLabels)
       /\ WfWriteNewline => WriteNewlineAt(WfLabels)
       /\ WfReadLine => ReadLineAt(WfLabels)
       /\ WfReadTimeout => ReadTimeoutAt(WfLabels)]_vars
    /\ [](/\ (ENABLED WfWriteRequest) <=> (ENABLED WriteRequestAt(WfLabels))
          /\ (ENABLED WfWriteNewline) <=> (ENABLED WriteNewlineAt(WfLabels))
          /\ (ENABLED WfReadLine) <=> (ENABLED ReadLineAt(WfLabels))
          /\ (ENABLED WfReadTimeout) <=> (ENABLED ReadTimeoutAt(WfLabels)))

\* write_file has written its request line and is about to read a response
\* line with an error member.
C18_Witness ==
    /\ pc = "wf_read"
    /\ iolog = <<WfSerialize("a.txt", TwoLines), InNL, Flushed>>
    /\ stdout = <<"e1", NL>>

\* C17 (as claimed): a response read consumes exactly one line, the bytes up
\* to and including the first newline; what the subprocess had already
\* emitted past that newline stays in the stream for the next call to read.
C17_ReadConsumesOneLine ==
    [][(ReadLine \/ WfReadLine)
          => stdout' = SubSeq(stdout, Len(FirstLine(stdout)) + 1, Len(stdout))]_vars

\* C19 (as claimed): with a subprocess that answers every request with
\* exactly one response line, in order, the response line a call evaluates is
\* the response to the request that this call wrote, also after earlier
\* calls that timed out.
C19_ResponseMatchesRequest ==
    [][(ReadLine /\ FirstLine(stdout) # <<>>)
          => ResponseId(Body(FirstLine(stdout))[1]) = request[5]]_vars

\* C20 (as claimed): whatever new, init, calls and drop have been done, at
\* most one subprocess spawned by the client is running, and a subprocess
\* that is running is the one held in server_process.
C20_OneSubprocessNoOrphan ==
    /\ Cardinality(running) <= 1
    /\ running \subseteq {server_process}

\* C21: run_once aborts on the first failure: when the dispatch of directive
\* k of a reply has failed, the log of dispatched directives ends at k and
\* the loop is over (no directive after k is dispatched), with that failure
\* as the outcome of run_once, and what the directives before k wrote is
\* still there: each file holds the content of the last directive before k
\* that wrote it.
C21_AbortOnFirstFailure ==
    LET k == FirstFailed(dispatched)
        reqs == Parsed(reply).requests
    IN  k # 0
          => /\ Len(dispatched) = k
             /\ dispatched[k].request = reqs[k]
             /\ todo = <<>>
             /\ agentPc \in {"idle", "crashed"}
             /\ ~ENABLED AgentDispatchLocal
             /\ agentResult = dispatched[k].outcome
             /\ \A i \in 1..(k - 1) :
                   LET d == dispatched[i].request
                   IN  (\A j \in (i + 1)..(k - 1) : dispatched[j].request.path # d.path)
                          => /\ files[d.path] = d.content
                             /\ (Parent(d.path) # Root => files[Parent(d.path)] = Dir)

\* The second of three directives failed: the first one's file is kept and
\* the third was not dispatched.
C21_Witness ==
    /\ reply = DocText(<<"w2", "u", "w1">>)
    /\ agentPc = "idle"
    /\ Len(dispatched) = 2
    /\ dispatched[1].outcome = Res("Ok")
    /\ dispatched[2].outcome.kind = "Unsupported"
    /\ agentResult.kind = "Unsupported"
    /\ files["a.txt"] = TwoLines
=============================================================================
